---------------------------- MODULE Spec2Model ----------------------------
(***************************************************************************)
(* A model of src/hegn/models/hegn.py: the HEGN forward pass (four blocks  *)
(* of equivariant feature extraction and invariant top-k selection, the    *)
(* hierarchical aggregation and the SVD alignment), the cross-context      *)
(* attention, and the training loss.                                       *)
(*                                                                         *)
(* Tensors of the forward pass are abstracted to their shape and, along    *)
(* the sample axis, to the original point index each position holds.       *)
(* Values are modelled exactly, over small integers, in the components     *)
(* whose claims are about values (attention weights, alignment, loss).     *)
(***************************************************************************)
EXTENDS Integers, Sequences, FiniteSets, TLC

VARIABLES
  \* ---- HEGN (constructor arguments kept on self) ----
  topk,             \* self.topk: the selection divisor of each block
  n_knn,            \* self.n_knn: the neighbor count of each block
  num_blocks,       \* self.num_blocks
  \* ---- HEGN.forward (one call in progress) ----
  pc,               \* position of the call: idle, extract, select, pool, ...
  blk,              \* the block the call is in (1..NumLevels)
  inB, inN,         \* batch size and point count of the call's inputs
  fx, fy,           \* the two feature tensors
  fx_block, fy_block,  \* the per-block lists (the shape of each entry)
  gf_calls,         \* the (k, N) of every get_graph_feature call of CrossContext
  ret,              \* what the call returned: the shapes of R and S
  \* ---- process-wide state ----
  logging_disable,  \* logging.root.manager.disable
  \* ---- EquivariantFeatureExtraction.forward (values, as terms) ----
  e_pc, e_x, e_y,   \* position and the two arguments of the call
  e_fx, e_fy,       \* the locals fx and fy
  e_prev,           \* arguments and results of the call before
  \* ---- CrossContext.forward (values, one point of one batch element) ----
  a_pc,
  a_x, a_Qx, a_Ky, a_Vy,   \* x, and the query, key and value tensors
  a_qk, a_atten,    \* the scores and the attention weights
  a_out,            \* the returned features
  \* ---- Alignment.forward (values, one batch element) ----
  al_pc,
  al_R0, al_s0,     \* the rotation and the scale that relate fy to fx
  al_fx, al_fy,     \* the fused descriptors, [C, 3]
  al_H, al_R,       \* the cross-covariance and the rotation returned
  al_S2,            \* the square of each component of the scale returned
  \* ---- HEGN_Loss.forward (values) ----
  l_pc,
  l_args,           \* x_aligned, y, R, S, t, R_gt, S_gt, t_gt
  l_reg,            \* L_reg, one entry per batch element
  l_chamfer,        \* L_chamfer
  l_ret             \* the triple returned

fwdVars == <<topk, n_knn, num_blocks, pc, blk, inB, inN, fx, fy,
             fx_block, fy_block, gf_calls, ret, logging_disable>>

efeVars == <<e_pc, e_x, e_y, e_fx, e_fy, e_prev>>
attVars == <<a_pc, a_x, a_Qx, a_Ky, a_Vy, a_qk, a_atten, a_out>>

alVars == <<al_pc, al_R0, al_s0, al_fx, al_fy, al_H, al_R, al_S2>>
lossVars == <<l_pc, l_args, l_reg, l_chamfer, l_ret>>

vars == <<fwdVars, efeVars, attVars, alVars, lossVars>>

\* What the actions of one component leave alone
notFwd == <<efeVars, attVars, alVars, lossVars>>
notEfe == <<fwdVars, attVars, alVars, lossVars>>
notAtt == <<fwdVars, efeVars, alVars, lossVars>>
notAl == <<fwdVars, efeVars, attVars, lossVars>>
notLoss == <<fwdVars, efeVars, attVars, alVars>>

----------------------------------------------------------------------------
(* Bounds of the model *)

MaxN == 3          \* point counts 1..MaxN
MaxCells == 6      \* batch size * point count of one input is at most this
MaxScore == 1      \* invariant-score logits 0..MaxScore

NumHeads == 2              \* attention heads
atten_multi_head_c == 2    \* channels of one head (16 in the program)
NumNeighbors == 2          \* neighbors k of a point in the graph feature
AlignChannels == 3         \* channels C of the fused descriptors

(* Program constants *)

NumLevels == 4     \* the four hard-coded blocks of HEGN
VecDim == 3        \* every channel is a 3-vector
NOTSET == 0        \* logging's disable level after import
CRITICAL == 50     \* logging.CRITICAL

(* Configurations the constructor is given *)

BatchSizes == {1, 2}
TopkChoices == {1, 2}
KnnConfigs == {<<1, 1, 1, 1>>, <<2, 2, 1, 1>>, <<2, 2, 2, 2>>}
NumBlocksChoices == {3, 4, 5}
vngcnn_out == <<16, 32, 64, 128>>

----------------------------------------------------------------------------
(* Helpers *)

Max(a, b) == IF a >= b THEN a ELSE b
Min(a, b) == IF a <= b THEN a ELSE b

RECURSIVE Pow2(_)
Pow2(n) == IF n <= 0 THEN 1 ELSE 2 * Pow2(n - 1)

RECURSIVE SumSeq(_)
SumSeq(s) == IF s = <<>> THEN 0 ELSE Head(s) + SumSeq(Tail(s))

Range(s) == {s[i] : i \in DOMAIN s}

\* A tensor of the forward pass: its shape and, for every batch element, the
\* original point index held at each position of the sample (last) axis.
Tensor(shape, pts) == [shape |-> shape, pts |-> pts]
NoTensor == Tensor(<<>>, <<>>)

----------------------------------------------------------------------------
(* Tensor shape operations *)

\* x.unsqueeze(1)
Unsqueeze1(shape) == <<shape[1], 1>> \o SubSeq(shape, 2, Len(shape))

\* a reduction over axis dim (1-based here), keepdim=False
DropAxis(shape, dim) ==
  SubSeq(shape, 1, dim - 1) \o SubSeq(shape, dim + 1, Len(shape))

\* mean_pool(x): the mean over the last (sample) axis
mean_pool(shape) == DropAxis(shape, Len(shape))

\* A vector-linear layer: maps the channel axis to out_feat
VNLinearLeakyReLU(shape, out_feat) == [shape EXCEPT ![2] = out_feat]

\* get_graph_feature(y, k): [B, C, 3, N] -> [B, 2C, 3, N, k']
get_graph_feature(shape, k) ==
  <<shape[1], 2 * shape[2], shape[3], shape[4], Min(k, shape[4])>>

\* VNDGCNN(in_feat, out_feat, k, pooling="mean"): one descriptor per point
local_context_feat(t, out_feat) ==
  Tensor(VNLinearLeakyReLU(t.shape, out_feat), t.pts)

\* CrossContext.forward(x, y): x + (atten * Vy).sum(-1), the shape of x
CrossContext_forward(x, y, k) ==
  LET Qx == VNLinearLeakyReLU(x.shape, x.shape[2])
      g  == get_graph_feature(y.shape, k)
      Vy == VNLinearLeakyReLU(g, x.shape[2])
      av == DropAxis(Vy, Len(Vy))
  IN  Tensor(Qx, x.pts)

\* GlobalContext.forward(fx)
GlobalContext_forward(t) ==
  LET Fx  == t.shape
      cat == [t.shape EXCEPT ![2] = t.shape[2] + Fx[2]]
  IN  Tensor(VNLinearLeakyReLU(cat, t.shape[2]), t.pts)

\* EquivariantFeatureExtraction.forward(x, y) of block i
EquivariantFeatureExtraction_forward(x, y, i) ==
  LET lx == local_context_feat(x, vngcnn_out[i])
      ly == local_context_feat(y, vngcnn_out[i])
      cx == CrossContext_forward(lx, ly, n_knn[i])
      cy == CrossContext_forward(ly, cx, n_knn[i])
  IN  <<GlobalContext_forward(cx), GlobalContext_forward(cy)>>

----------------------------------------------------------------------------
(* InvariantMapping *)

\* Sc = softmax(...): positive and increasing in the logit; the common
\* denominator of a row is left out.
Softmax(logits) == [j \in DOMAIN logits |-> Pow2(logits[j])]

\* torch.topk(Sc, k)[1]: the indices of the k largest entries, largest first;
\* the order among equal entries is the library's choice.
TopkIndices(Sc, k) ==
  {idx \in [1..k -> DOMAIN Sc] :
     /\ \A i, j \in 1..k : i # j => idx[i] # idx[j]
     /\ \A i \in 1..(k - 1) : Sc[idx[i]] >= Sc[idx[i + 1]]
     /\ \A j \in DOMAIN Sc : j \notin Range(idx) =>
                               \A i \in 1..k : Sc[j] <= Sc[idx[i]]}

\* Every index list topk can return for n points and a selection count k
TopkResults[n \in 0..MaxN, k \in 0..MaxN] ==
  UNION {TopkIndices(Softmax(logits), k) : logits \in [1..n -> 0..MaxScore]}

\* Sc.shape[1] // topk
SelectCount(n, tk) == n \div tk

\* f.gather(-1, idx), idx expanded over the channel and vector axes
Gather(t, idx) ==
  Tensor([t.shape EXCEPT ![4] = Len(idx[1])],
         [b \in DOMAIN t.pts |-> [j \in DOMAIN idx[b] |-> t.pts[b][idx[b][j]]]])

\* The index list with each batch element's selection in the opposite order
ReverseIdx(idx) ==
  [b \in DOMAIN idx |-> [j \in DOMAIN idx[b] |-> idx[b][Len(idx[b]) + 1 - j]]]

\* The selector gathering fy at an index list of its own
InvariantMapping_forward_OwnIdx(x, y, idx) ==
  <<Gather(x, idx), Gather(y, ReverseIdx(idx))>>

\* InvariantMapping.forward: both tensors gathered at the index list idx
InvariantMapping_forward(x, y, idx) == <<Gather(x, idx), Gather(y, idx)>>

----------------------------------------------------------------------------
(* HierarchicalAggregation and Alignment (shapes) *)

\* torch.cat(fx, dim=1): the tensors must agree in rank and in every axis
\* but the channel axis
CatOk(blocks) ==
  \A i, j \in DOMAIN blocks :
     /\ Len(blocks[i]) = Len(blocks[j])
     /\ \A a \in DOMAIN blocks[i] : a # 2 => blocks[i][a] = blocks[j][a]

Cat(blocks) ==
  [blocks[1] EXCEPT ![2] = SumSeq([i \in DOMAIN blocks |-> blocks[i][2]])]

\* HierarchicalAggregation.forward(fx)
HierarchicalAggregation_forward(blocks) ==
  Tensor(VNLinearLeakyReLU(Cat(blocks), vngcnn_out[NumLevels]), <<>>)

\* Alignment.forward(fx, fy): the shapes of R and S
Alignment_shapes(x, y) ==
  LET H == <<x.shape[1], x.shape[3], y.shape[3]>>
      u == <<H[1], H[2], H[2]>>
      v == <<H[1], H[3], H[3]>>
      R == <<u[1], u[2], v[3]>>
      S == DropAxis(y.shape, 2)
  IN  [R |-> R, S |-> S]

----------------------------------------------------------------------------
(* HEGN.forward *)

NoRet == [R |-> <<>>, S |-> <<>>]

FwdIdle ==
  /\ topk = [i \in 1..NumLevels |-> 1]
  /\ n_knn = [i \in 1..NumLevels |-> 1]
  /\ num_blocks = NumLevels
  /\ pc = "idle"
  /\ blk = 0
  /\ inB = 0 /\ inN = 0
  /\ fx = NoTensor /\ fy = NoTensor
  /\ fx_block = <<>> /\ fy_block = <<>>
  /\ gf_calls = <<>>
  /\ ret = NoRet
  /\ logging_disable = NOTSET

InitFwd ==
  /\ topk \in [1..NumLevels -> TopkChoices]
  /\ n_knn \in KnnConfigs
  /\ num_blocks \in NumBlocksChoices
  /\ pc = "idle"
  /\ blk = 0
  /\ inB = 0 /\ inN = 0
  /\ fx = NoTensor /\ fy = NoTensor
  /\ fx_block = <<>> /\ fy_block = <<>>
  /\ gf_calls = <<>>
  /\ ret = NoRet
  /\ logging_disable = NOTSET

\* lines 160-165: logging.disable, the empty lists, the feature axis
Call ==
  /\ pc = "idle"
  /\ \E B \in BatchSizes, N \in 1..MaxN :
       LET ids == [b \in 1..B |-> [j \in 1..N |-> j]]
       IN  /\ B * N <= MaxCells
           /\ inB' = B /\ inN' = N
           /\ fx' = Tensor(Unsqueeze1(<<B, VecDim, N>>), ids)
           /\ fy' = Tensor(Unsqueeze1(<<B, VecDim, N>>), ids)
  /\ logging_disable' = CRITICAL
  /\ fx_block' = <<>> /\ fy_block' = <<>>
  /\ gf_calls' = <<>>
  /\ ret' = NoRet
  /\ blk' = 1
  /\ pc' = "extract"
  /\ UNCHANGED <<topk, n_knn, num_blocks>>
  /\ UNCHANGED notFwd

\* fx, fy = self.feature_extraction<blk>(fx, fy)
Extract ==
  /\ pc = "extract"
  /\ LET r == EquivariantFeatureExtraction_forward(fx, fy, blk)
     IN  fx' = r[1] /\ fy' = r[2]
  /\ gf_calls' = gf_calls \o << [k |-> n_knn[blk], n |-> fx.shape[4]],
                                [k |-> n_knn[blk], n |-> fx.shape[4]] >>
  /\ pc' = "select"
  /\ UNCHANGED <<topk, n_knn, num_blocks, blk, inB, inN, fx_block, fy_block,
                 ret, logging_disable>>
  /\ UNCHANGED notFwd

\* fx, fy = self.invariant_mapping<blk>(fx, fy, self.topk[blk]) and the appends
Select ==
  /\ pc = "select"
  /\ \E idx \in [1..inB -> TopkResults[fx.shape[4],
                                        SelectCount(fx.shape[4], topk[blk])]] :
       LET r == InvariantMapping_forward(fx, fy, idx)
       IN  /\ fx' = r[1] /\ fy' = r[2]
           /\ fx_block' = Append(fx_block, r[1].shape)
           /\ fy_block' = Append(fy_block, r[2].shape)
  /\ IF blk < NumLevels
       THEN blk' = blk + 1 /\ pc' = "extract"
       ELSE blk' = blk /\ pc' = "pool"
  /\ UNCHANGED <<topk, n_knn, num_blocks, inB, inN, gf_calls, ret,
                 logging_disable>>
  /\ UNCHANGED notFwd

\* for i in range(self.num_blocks): fx_block[i] = self.pool(fx_block[i]) ...
\* An index past the end of the list raises IndexError.
Pool ==
  /\ pc = "pool"
  /\ IF num_blocks > Len(fx_block)
       THEN /\ pc' = "raised"
            /\ fx_block' = [i \in DOMAIN fx_block |-> mean_pool(fx_block[i])]
            /\ fy_block' = [i \in DOMAIN fy_block |-> mean_pool(fy_block[i])]
       ELSE /\ pc' = "aggregate"
            /\ fx_block' = [i \in DOMAIN fx_block |->
                 IF i <= num_blocks THEN mean_pool(fx_block[i]) ELSE fx_block[i]]
            /\ fy_block' = [i \in DOMAIN fy_block |->
                 IF i <= num_blocks THEN mean_pool(fy_block[i]) ELSE fy_block[i]]
  /\ UNCHANGED <<topk, n_knn, num_blocks, blk, inB, inN, fx, fy, gf_calls,
                 ret, logging_disable>>
  /\ UNCHANGED notFwd

\* fx = self.hierarchical_aggregation(fx_block), and fy: torch.cat raises
\* when the list mixes pooled and unpooled tensors.
Aggregate ==
  /\ pc = "aggregate"
  /\ IF CatOk(fx_block) /\ CatOk(fy_block)
       THEN /\ fx' = HierarchicalAggregation_forward(fx_block)
            /\ fy' = HierarchicalAggregation_forward(fy_block)
            /\ pc' = "align"
       ELSE /\ UNCHANGED <<fx, fy>>
            /\ pc' = "raised"
  /\ UNCHANGED <<topk, n_knn, num_blocks, blk, inB, inN, fx_block, fy_block,
                 gf_calls, ret, logging_disable>>
  /\ UNCHANGED notFwd

\* R, S = self.alignment(fx, fy); return R, S
Align ==
  /\ pc = "align"
  /\ ret' = Alignment_shapes(fx, fy)
  /\ pc' = "done"
  /\ UNCHANGED <<topk, n_knn, num_blocks, blk, inB, inN, fx, fy, fx_block,
                 fy_block, gf_calls, logging_disable>>
  /\ UNCHANGED notFwd

\* The call is over (returned or raised): its local tensors are gone, and
\* the model may be called again.
Return ==
  /\ pc \in {"done", "raised"}
  /\ pc' = "idle"
  /\ fx' = NoTensor /\ fy' = NoTensor
  /\ fx_block' = <<>> /\ fy_block' = <<>>
  /\ UNCHANGED <<topk, n_knn, num_blocks, blk, inB, inN, gf_calls, ret,
                 logging_disable>>
  /\ UNCHANGED notFwd

NextFwd == Call \/ Extract \/ Select \/ Pool \/ Aggregate \/ Align \/ Return

----------------------------------------------------------------------------
(* EquivariantFeatureExtraction.forward on values.  The three stages are    *)
(* learned maps; a value is the term that computed it, written in prefix   *)
(* form as a sequence of names, so two values are equal exactly when they  *)
(* were computed the same way from the same inputs.                        *)

Clouds == {<<"P">>, <<"Q">>, <<"R">>}

local_context_feat_val(x) == <<"local_context_feat">> \o x
cross_context_val(x, y) == <<"cross_context">> \o x \o y
global_context_val(x) == <<"global_context">> \o x

NoCall == [x |-> <<>>, y |-> <<>>, fx |-> <<>>, fy |-> <<>>]

EfeIdle ==
  /\ e_pc = "idle"
  /\ e_x = <<>> /\ e_y = <<>>
  /\ e_fx = <<>> /\ e_fy = <<>>
  /\ e_prev = NoCall

EfeCall ==
  /\ e_pc = "idle"
  /\ \E x \in Clouds, y \in Clouds : e_x' = x /\ e_y' = y
  /\ e_fx' = <<>> /\ e_fy' = <<>>
  /\ e_pc' = "local"
  /\ UNCHANGED e_prev
  /\ UNCHANGED notEfe

\* 1. local context aggregation
EfeLocal ==
  /\ e_pc = "local"
  /\ e_fx' = local_context_feat_val(e_x)
  /\ e_fy' = local_context_feat_val(e_y)
  /\ e_pc' = "cross_x"
  /\ UNCHANGED <<e_x, e_y, e_prev>>
  /\ UNCHANGED notEfe

\* 2. cross context: fx = self.cross_context(fx, fy)
EfeCrossX ==
  /\ e_pc = "cross_x"
  /\ e_fx' = cross_context_val(e_fx, e_fy)
  /\ e_pc' = "cross_y"
  /\ UNCHANGED <<e_x, e_y, e_fy, e_prev>>
  /\ UNCHANGED notEfe

\*    fy = self.cross_context(fy, fx), fx being the local just reassigned
EfeCrossY ==
  /\ e_pc = "cross_y"
  /\ e_fy' = cross_context_val(e_fy, e_fx)
  /\ e_pc' = "global"
  /\ UNCHANGED <<e_x, e_y, e_fx, e_prev>>
  /\ UNCHANGED notEfe

\* 3. global context aggregation
EfeGlobal ==
  /\ e_pc = "global"
  /\ e_fx' = global_context_val(e_fx)
  /\ e_fy' = global_context_val(e_fy)
  /\ e_pc' = "done"
  /\ UNCHANGED <<e_x, e_y, e_prev>>
  /\ UNCHANGED notEfe

\* return fx, fy
EfeReturn ==
  /\ e_pc = "done"
  /\ e_prev' = [x |-> e_x, y |-> e_y, fx |-> e_fx, fy |-> e_fy]
  /\ e_pc' = "idle"
  /\ UNCHANGED <<e_x, e_y, e_fx, e_fy>>
  /\ UNCHANGED notEfe

NextEfe ==
  EfeCall \/ EfeLocal \/ EfeCrossX \/ EfeCrossY \/ EfeGlobal \/ EfeReturn

----------------------------------------------------------------------------
(* CrossContext.forward on values, for one point of one batch element:     *)
(* Qx[c] is the query 3-vector of channel c, Ky[c][k] and Vy[c][k] the key *)
(* and value 3-vectors of channel c and neighbor k.  Weights are exact     *)
(* fractions [num, den].                                                   *)

NumChannels == NumHeads * atten_multi_head_c

QVecs == {<<1, 0, 0>>, <<0, 1, 1>>}
KVecs == {<<1, 0, 0>>, <<0, -1, 2>>}
VTensors == {[c \in 1..NumChannels |-> [k \in 1..NumNeighbors |-> <<1, 0, 0>>]],
             [c \in 1..NumChannels |-> [k \in 1..NumNeighbors |-> <<0, k, c>>]]}
XTensors == {[c \in 1..NumChannels |-> <<c, 0, 1>>]}

Dot(u, v) == SumSeq([d \in 1..VecDim |-> u[d] * v[d]])

MinOf(S) == CHOOSE m \in S : \A o \in S : m <= o

\* (Ky * Qx[..., None]).sum(2): the sum over the 3-vector axis, per channel
QK(Ky, Qx) ==
  [c \in 1..NumChannels |-> [k \in 1..NumNeighbors |-> Dot(Ky[c][k], Qx[c])]]

\* qk.view(B, N_head, atten_multi_head_c, N, K)
ViewHeads(qk) ==
  LET N_head == Len(qk) \div atten_multi_head_c
  IN  [h \in 1..N_head |-> [i \in 1..atten_multi_head_c |->
         qk[(h - 1) * atten_multi_head_c + i]]]

\* softmax(row / sqrt(3 C)): exp(q / sqrt(3 C)) is b^q for the base
\* b = exp(1 / sqrt(3 C)) > 1, taken to be 2 here; the row is shifted by its
\* minimum, which leaves a softmax unchanged.
SoftmaxRow(row) ==
  LET m   == MinOf(Range(row))
      e   == [k \in DOMAIN row |-> Pow2(row[k] - m)]
      den == SumSeq(e)
  IN  [k \in DOMAIN row |-> [num |-> e[k], den |-> den]]

\* qk / sqrt(3 C), then torch.softmax(atten, dim=-1)
SoftmaxHeads(qkv) ==
  [h \in DOMAIN qkv |-> [i \in DOMAIN qkv[h] |-> SoftmaxRow(qkv[h][i])]]

\* atten.expand(-1, -1, atten_multi_head_c, -1, -1): axis 2 already has
\* that size, nothing is broadcast; then .view(B, C, N, K)
ExpandView(att) ==
  [c \in 1..NumChannels |->
     att[((c - 1) \div atten_multi_head_c) + 1]
        [((c - 1) % atten_multi_head_c) + 1]]

\* x + (atten * Vy).sum(-1): the weights of a row share their denominator
Residual(x, att, Vy) ==
  [c \in 1..NumChannels |-> [d \in 1..VecDim |->
     [num |-> x[c][d] * att[c][1].den
              + SumSeq([k \in 1..NumNeighbors |-> att[c][k].num * Vy[c][k][d]]),
      den |-> att[c][1].den]]]

AttIdle ==
  /\ a_pc = "idle"
  /\ a_x = <<>> /\ a_Qx = <<>> /\ a_Ky = <<>> /\ a_Vy = <<>>
  /\ a_qk = <<>> /\ a_atten = <<>> /\ a_out = <<>>

InitAtt ==
  /\ a_pc = "start"
  /\ a_x \in XTensors
  /\ a_Qx \in [1..NumChannels -> QVecs]
  /\ a_Ky \in [1..NumChannels -> [1..NumNeighbors -> KVecs]]
  /\ a_Vy \in VTensors
  /\ a_qk = <<>> /\ a_atten = <<>> /\ a_out = <<>>

\* lines 55-59: the scores, viewed per head
AttScores ==
  /\ a_pc = "start"
  /\ a_qk' = ViewHeads(QK(a_Ky, a_Qx))
  /\ a_pc' = "scored"
  /\ UNCHANGED <<a_x, a_Qx, a_Ky, a_Vy, a_atten, a_out>>
  /\ UNCHANGED notAtt

\* lines 60-61
AttSoftmax ==
  /\ a_pc = "scored"
  /\ a_atten' = SoftmaxHeads(a_qk)
  /\ a_pc' = "softmaxed"
  /\ UNCHANGED <<a_x, a_Qx, a_Ky, a_Vy, a_qk, a_out>>
  /\ UNCHANGED notAtt

\* lines 62-63
AttExpand ==
  /\ a_pc = "softmaxed"
  /\ a_atten' = ExpandView(a_atten)
  /\ a_pc' = "expanded"
  /\ UNCHANGED <<a_x, a_Qx, a_Ky, a_Vy, a_qk, a_out>>
  /\ UNCHANGED notAtt

\* line 65
AttReturn ==
  /\ a_pc = "expanded"
  /\ a_out' = Residual(a_x, a_atten, a_Vy)
  /\ a_pc' = "done"
  /\ UNCHANGED <<a_x, a_Qx, a_Ky, a_Vy, a_qk, a_atten>>
  /\ UNCHANGED notAtt

NextAtt == AttScores \/ AttSoftmax \/ AttExpand \/ AttReturn

----------------------------------------------------------------------------
(* 3-vectors and matrices (a matrix is the sequence of its rows) *)

Transpose(A) ==
  [j \in DOMAIN A[1] |-> [i \in DOMAIN A |-> A[i][j]]]

MatMul(A, B) ==
  [i \in DOMAIN A |-> [j \in DOMAIN B[1] |->
     SumSeq([m \in DOMAIN B |-> A[i][m] * B[m][j]])]]

MatVec(A, v) == [i \in DOMAIN A |-> SumSeq([m \in DOMAIN v |-> A[i][m] * v[m]])]

MatSub(A, B) == [i \in DOMAIN A |-> [j \in DOMAIN A[i] |-> A[i][j] - B[i][j]]]

\* torch.eye(3)
Eye3 == [i \in 1..VecDim |-> [j \in 1..VecDim |-> IF i = j THEN 1 ELSE 0]]

\* Rotations by 90 and 180 degrees about the coordinate axes
Rz90 == << <<0, -1, 0>>, <<1, 0, 0>>, <<0, 0, 1>> >>
Rx90 == << <<1, 0, 0>>, <<0, 0, -1>>, <<0, 1, 0>> >>
Ry90 == << <<0, 0, 1>>, <<0, 1, 0>>, <<-1, 0, 0>> >>
Rz180 == << <<-1, 0, 0>>, <<0, -1, 0>>, <<0, 0, 1>> >>
Rotations == {Eye3, Rz90, Rx90, Ry90, Rz180}

\* The orthogonal matrices with integer entries: the signed permutations
SignedPermutations ==
  {[i \in 1..VecDim |-> [j \in 1..VecDim |-> IF j = p[i] THEN sg[i] ELSE 0]] :
     p \in {q \in [1..VecDim -> 1..VecDim] :
              \A i, j \in 1..VecDim : i # j => q[i] # q[j]},
     sg \in [1..VecDim -> {-1, 1}]}

Det3(M) ==
    M[1][1] * (M[2][2] * M[3][3] - M[2][3] * M[3][2])
  - M[1][2] * (M[2][1] * M[3][3] - M[2][3] * M[3][1])
  + M[1][3] * (M[2][1] * M[3][2] - M[2][2] * M[3][1])

\* Symmetric with every principal minor >= 0
IsPSD(M) ==
  /\ M = Transpose(M)
  /\ \A i \in 1..VecDim : M[i][i] >= 0
  /\ \A i, j \in 1..VecDim :
        i < j => M[i][i] * M[j][j] - M[i][j] * M[j][i] >= 0
  /\ Det3(M) >= 0

----------------------------------------------------------------------------
(* Alignment.forward on values, for one batch element *)

\* H = torch.einsum('bcd,bce->bde', fx, fy)
CrossCovariance(x, y) ==
  [d \in 1..VecDim |-> [e \in 1..VecDim |->
     SumSeq([c \in DOMAIN x |-> x[c][d] * y[c][e]])]]

\* u, s, v = torch.linalg.svd(H); R = torch.matmul(u, v).  With
\* H = u diag(s) v, H = (u diag(s) u^T)(u v): the products u v over all the
\* decompositions of H are the orthogonal R with H R^T symmetric positive
\* semidefinite (one R when H is invertible; the library's choice when it
\* is not).  Here: those among the orthogonal matrices with integer entries.
SvdRotations(H) ==
  {P \in SignedPermutations : IsPSD(MatMul(H, Transpose(P)))}

\* torch.norm(f, dim=1): the norm over the channel axis, one value per
\* coordinate axis d; squared
NormDim1Sq(f) ==
  [d \in 1..VecDim |-> SumSeq([c \in DOMAIN f |-> f[c][d] * f[c][d]])]

\* S = torch.norm(fy, dim=1) / torch.norm(fx, dim=1), as the fraction of
\* the squares: S[d] is the non-negative root of num / den (inf or nan
\* when den = 0)
ScaleSq(x, y) ==
  [d \in 1..VecDim |-> [num |-> NormDim1Sq(y)[d], den |-> NormDim1Sq(x)[d]]]

DescriptorVecs == [1..VecDim -> {0, 1}]
ScaleFactors == {1, 2}

AlIdle ==
  /\ al_pc = "idle"
  /\ al_R0 = Eye3 /\ al_s0 = 1
  /\ al_fx = <<>> /\ al_fy = <<>>
  /\ al_H = <<>> /\ al_R = <<>> /\ al_S2 = <<>>

\* fy is fx rotated by R0 and scaled by s0: no noise, no translation
InitAl ==
  /\ al_pc = "start"
  /\ al_R0 \in Rotations
  /\ al_s0 \in ScaleFactors
  /\ al_fx \in [1..AlignChannels -> DescriptorVecs]
  /\ al_fy = [c \in 1..AlignChannels |->
                [d \in 1..VecDim |-> al_s0 * MatVec(al_R0, al_fx[c])[d]]]
  /\ al_H = <<>> /\ al_R = <<>> /\ al_S2 = <<>>

\* line 114
AlCovariance ==
  /\ al_pc = "start"
  /\ al_H' = CrossCovariance(al_fx, al_fy)
  /\ al_pc' = "svd"
  /\ UNCHANGED <<al_R0, al_s0, al_fx, al_fy, al_R, al_S2>>
  /\ UNCHANGED notAl

\* lines 115-116
AlRotation ==
  /\ al_pc = "svd"
  /\ \E P \in SvdRotations(al_H) : al_R' = P
  /\ al_pc' = "scale"
  /\ UNCHANGED <<al_R0, al_s0, al_fx, al_fy, al_H, al_S2>>
  /\ UNCHANGED notAl

\* lines 117-118
AlScale ==
  /\ al_pc = "scale"
  /\ al_S2' = ScaleSq(al_fx, al_fy)
  /\ al_pc' = "done"
  /\ UNCHANGED <<al_R0, al_s0, al_fx, al_fy, al_H, al_R>>
  /\ UNCHANGED notAl

NextAl == AlCovariance \/ AlRotation \/ AlScale

----------------------------------------------------------------------------
(* HEGN_Loss.forward on values.  R, S, R_gt, S_gt are sequences over the   *)
(* batch of 3x3 matrices; x_aligned and y are sequences over the batch of  *)
(* [3, P] clouds; t and t_gt are tensors with their shape.  Means are      *)
(* exact fractions [num, den].                                             *)

Frac(n, d) == [num |-> n, den |-> d]
FracAdd(p, q) == Frac(p.num * q.den + q.num * p.den, p.den * q.den)

\* A tensor of rank 1 or 2 with its shape; data in row-major order
Flat(rows) ==
  [shape |-> <<Len(rows), Len(rows[1])>>,
   data |-> [n \in 1..(Len(rows) * Len(rows[1])) |->
               rows[((n - 1) \div Len(rows[1])) + 1]
                   [((n - 1) % Len(rows[1])) + 1]]]

\* t.squeeze(): every axis of size 1 is removed
Squeeze(ten) ==
  [ten EXCEPT !.shape = SelectSeq(ten.shape, LAMBDA a : a # 1)]

Pad2(shape) == IF Len(shape) = 1 THEN <<1, shape[1]>> ELSE shape

At2(ten, i, j) ==
  LET sh == Pad2(ten.shape)
      ii == IF sh[1] = 1 THEN 1 ELSE i
      jj == IF sh[2] = 1 THEN 1 ELSE j
  IN  ten.data[(ii - 1) * sh[2] + jj]

\* a - b with broadcasting
BroadcastSub(a, b) ==
  LET rows == Max(Pad2(a.shape)[1], Pad2(b.shape)[1])
      cols == Max(Pad2(a.shape)[2], Pad2(b.shape)[2])
  IN  [shape |-> <<rows, cols>>,
       data |-> [n \in 1..(rows * cols) |->
                   At2(a, ((n - 1) \div cols) + 1, ((n - 1) % cols) + 1)
                 - At2(b, ((n - 1) \div cols) + 1, ((n - 1) % cols) + 1)]]

\* torch.norm(ten, dim=1)**2 of a rank-2 tensor
NormSqDim1(ten) ==
  [b \in 1..ten.shape[1] |->
     SumSeq([j \in 1..ten.shape[2] |-> At2(ten, b, j) * At2(ten, b, j)])]

\* M.diagonal(dim1=-2, dim2=-1)
Diagonal(M) == [b \in DOMAIN M |-> [d \in 1..VecDim |-> M[b][d][d]]]

\* torch.norm(R_loss, dim=(1, 2))**2
FrobeniusSq(M) ==
  SumSeq([i \in DOMAIN M |-> SumSeq([j \in DOMAIN M[i] |-> M[i][j] * M[i][j]])])

\* lines 215-221
L_reg(a) ==
  LET t    == Squeeze(a.t)
      S    == Diagonal(a.S)
      S_gt == Diagonal(a.S_gt)
      batch_size == Len(a.R)
      R_loss == [b \in 1..batch_size |->
                   MatSub(MatMul(Transpose(a.R_gt[b]), a.R[b]), Eye3)]
      dS == NormSqDim1(BroadcastSub(Flat(S), Flat(S_gt)))
      dt == NormSqDim1(BroadcastSub(t, a.t_gt))
  IN  [b \in 1..batch_size |-> FrobeniusSq(R_loss[b]) + dS[b] + dt[b]]

\* L_reg.mean()
Mean(v) == Frac(SumSeq(v), Len(v))

SqDist(p, q) == SumSeq([d \in DOMAIN p |-> (p[d] - q[d]) * (p[d] - q[d])])

\* The sum over the points of X of the squared distance to the nearest
\* point of Y
NearestSum(X, Y) ==
  SumSeq([i \in DOMAIN X |->
            MinOf({SqDist(X[i], Y[j]) : j \in DOMAIN Y})])

\* pytorch3d's chamfer_distance(x, y)[0] on [B, P, 3] clouds: both
\* directions, each the mean over the points and then over the batch
chamfer_distance(x, y) ==
  FracAdd(Frac(SumSeq([b \in DOMAIN x |-> NearestSum(x[b], y[b])]),
               Len(x[1]) * Len(x)),
          Frac(SumSeq([b \in DOMAIN y |-> NearestSum(y[b], x[b])]),
               Len(y[1]) * Len(y)))

\* line 223: the clouds are given as [B, 3, P] and transposed
L_chamfer(a) ==
  chamfer_distance([b \in DOMAIN a.x_aligned |-> Transpose(a.x_aligned[b])],
                   [b \in DOMAIN a.y |-> Transpose(a.y[b])])

\* The total: L_reg.mean() with the chamfer term left out
LossTotalNoChamfer(reg, chamfer) == reg

\* line 224: L_reg.mean() + L_chamfer
LossTotal(reg, chamfer) == FracAdd(reg, chamfer)

NotARotation == << <<2, 0, 0>>, <<0, 1, 0>>, <<0, 0, 1>> >>
PredRotations == {Eye3, Rz90, NotARotation}
GtRotations == {Eye3, Rz90}
ScaleMats == {Eye3, << <<2, 1, 0>>, <<0, 1, 0>>, <<1, 0, 1>> >>}
PredTranslations == {<<0, 0, 0>>, <<1, 0, -1>>}
GtTranslations == {<<0, 0, 0>>}
\* clouds of two points, [3, P]
CloudA == << <<0, 1>>, <<0, 0>>, <<0, 2>> >>
CloudB == << <<0, 1>>, <<1, 0>>, <<0, 0>> >>
PredClouds == {CloudA, CloudB}
GtClouds == {CloudA}
LossBatchSizes == {1, 2}

LossIdle ==
  /\ l_pc = "idle"
  /\ l_args = <<>>
  /\ l_reg = <<>>
  /\ l_chamfer = Frac(0, 1)
  /\ l_ret = <<>>

InitLoss ==
  /\ l_pc = "start"
  /\ \E B \in LossBatchSizes :
       \E R \in [1..B -> PredRotations], R_gt \in [1..B -> GtRotations],
          S \in [1..B -> ScaleMats], S_gt \in [1..B -> ScaleMats],
          t \in [1..B -> PredTranslations], t_gt \in [1..B -> GtTranslations],
          xa \in [1..B -> PredClouds], y \in [1..B -> GtClouds] :
         l_args = [x_aligned |-> xa, y |-> y, R |-> R, S |-> S, t |-> Flat(t),
                   R_gt |-> R_gt, S_gt |-> S_gt, t_gt |-> Flat(t_gt)]
  /\ l_reg = <<>>
  /\ l_chamfer = Frac(0, 1)
  /\ l_ret = <<>>

\* lines 215-221
LossRegistration ==
  /\ l_pc = "start"
  /\ l_reg' = L_reg(l_args)
  /\ l_pc' = "chamfer"
  /\ UNCHANGED <<l_args, l_chamfer, l_ret>>
  /\ UNCHANGED notLoss

\* line 223
LossChamfer ==
  /\ l_pc = "chamfer"
  /\ l_chamfer' = L_chamfer(l_args)
  /\ l_pc' = "return"
  /\ UNCHANGED <<l_args, l_reg, l_ret>>
  /\ UNCHANGED notLoss

\* line 224
LossReturn ==
  /\ l_pc = "return"
  /\ l_ret' = <<LossTotal(Mean(l_reg), l_chamfer), Mean(l_reg), l_chamfer>>
  /\ l_pc' = "done"
  /\ UNCHANGED <<l_args, l_reg, l_chamfer>>
  /\ UNCHANGED notLoss

NextLoss == LossRegistration \/ LossChamfer \/ LossReturn

----------------------------------------------------------------------------
(* Specifications: one per component, the other components at rest *)

Init == InitFwd /\ EfeIdle /\ AttIdle /\ AlIdle /\ LossIdle
Spec == Init /\ [][NextFwd]_vars

InitEfe == FwdIdle /\ EfeIdle /\ AttIdle /\ AlIdle /\ LossIdle
SpecEfe == InitEfe /\ [][NextEfe]_vars

InitAttention == FwdIdle /\ EfeIdle /\ InitAtt /\ AlIdle /\ LossIdle
SpecAtt == InitAttention /\ [][NextAtt]_vars

InitAlignment == FwdIdle /\ EfeIdle /\ AttIdle /\ InitAl /\ LossIdle
SpecAl == InitAlignment /\ [][NextAl]_vars

InitLossCall == FwdIdle /\ EfeIdle /\ AttIdle /\ AlIdle /\ InitLoss
SpecLoss == InitLossCall /\ [][NextLoss]_vars

----------------------------------------------------------------------------
(* Claims about HEGN.forward, checked under Spec *)

\* The point count that entered block i
PointsInto(i) == IF i = 1 THEN inN ELSE fx_block[i - 1][4]

\* C1: for every point count N >= 1 and divisor topk >= 1 the selector
\* returns exactly max(1, floor(N / topk)) points, never zero points.
C1_SelectsAtLeastOne ==
  pc \in {"extract", "select", "pool"} =>
    \A i \in DOMAIN fx_block :
       /\ fx_block[i][4] = Max(1, PointsInto(i) \div topk[i])
       /\ fy_block[i][4] = Max(1, PointsInto(i) \div topk[i])

\* C2: in every block X's and Y's features are gathered at the same index
\* list, so after any number of blocks the two tensors have equal point
\* counts and position j of both holds the same original point index.
C2_SameIndices ==
  pc \in {"extract", "select", "pool"} =>
    /\ fx.shape[4] = fy.shape[4]
    /\ DOMAIN fx.pts = 1..inB /\ DOMAIN fy.pts = 1..inB
    /\ \A b \in 1..inB :
         /\ Len(fx.pts[b]) = fx.shape[4]
         /\ Len(fy.pts[b]) = fy.shape[4]
         /\ \A j \in 1..Len(fx.pts[b]) : fx.pts[b][j] = fy.pts[b][j]

\* Two blocks have selected, differently for the two batch elements and
\* not in the original order, and both tensors hold the same points.
C2_Witness ==
  /\ pc = "extract" /\ blk = 3 /\ inB = 2
  /\ fx.pts = << <<3, 1, 2>>, <<2, 3, 1>> >>
  /\ fy.pts = fx.pts

\* C3: forward returns a rotation of shape [B, 3, 3] and a scale of shape
\* [B, 3, 3], the shape HEGN_Loss.forward takes the diagonal of.
C3_ReturnShapes ==
  pc = "done" =>
    /\ ret.R = <<inB, VecDim, VecDim>>
    /\ ret.S = <<inB, VecDim, VecDim>>

\* C6: after any sequence of forward calls the process-wide state, the
\* logging disable level included, is what it was before the first call.
C6_LoggingUntouched == pc = "idle" => logging_disable = NOTSET

\* C9: for every accepted num_blocks the call reaches the concatenation and
\* the aggregator concatenates the pooled descriptor of each of the four
\* blocks: none unpooled, none left out.
C9_AllBlocksPooled ==
  /\ pc = "aggregate" =>
       /\ Len(fx_block) = NumLevels /\ Len(fy_block) = NumLevels
       /\ \A i \in DOMAIN fx_block :
            Len(fx_block[i]) = 3 /\ Len(fy_block[i]) = 3
  /\ pc # "raised"

\* C10: a neighbor count above the number of points entering the block is
\* never handed unclamped to graph-feature construction.
C10_KnnGuarded ==
  \A i \in DOMAIN gf_calls : gf_calls[i].k <= gf_calls[i].n

----------------------------------------------------------------------------
(* Claims about EquivariantFeatureExtraction.forward, checked under SpecEfe *)

\* C7: the cross-context stage is symmetric: Y's cross-conditioned features
\* are computed from the local-context features of X, as X's are from Y's,
\* so a call with the two inputs swapped returns the two outputs swapped.
C7_CrossSymmetric ==
  /\ e_pc = "global" =>
       /\ e_fx = cross_context_val(local_context_feat_val(e_x),
                                   local_context_feat_val(e_y))
       /\ e_fy = cross_context_val(local_context_feat_val(e_y),
                                   local_context_feat_val(e_x))
  /\ (e_pc = "done" /\ e_prev.x = e_y /\ e_prev.y = e_x) =>
       (e_fx = e_prev.fy /\ e_fy = e_prev.fx)

----------------------------------------------------------------------------
(* Claims about CrossContext.forward, checked under SpecAtt *)

FracEq(p, q) == p.num * q.den = q.num * p.den

\* The channels of head h
HeadChannels(h) ==
  {(h - 1) * atten_multi_head_c + i : i \in 1..atten_multi_head_c}

\* The score of head h and neighbor k summed over the head's channels and
\* over the 3-vector axis
HeadScore(h) ==
  [k \in 1..NumNeighbors |->
     SumSeq([i \in 1..atten_multi_head_c |->
       Dot(a_Ky[(h - 1) * atten_multi_head_c + i][k],
           a_Qx[(h - 1) * atten_multi_head_c + i])])]

\* C8: the attention weight is computed once per head: all channels of a
\* head receive the identical weight, which comes from the query-key dot
\* product summed over the channel axis and the 3-vector axis, and the
\* weights of each head sum to 1 over the neighbor axis.
C8_WeightPerHead ==
  a_pc \in {"expanded", "done"} =>
    \A h \in 1..NumHeads :
      /\ \A c1, c2 \in HeadChannels(h) : \A k \in 1..NumNeighbors :
            FracEq(a_atten[c1][k], a_atten[c2][k])
      /\ \A c \in HeadChannels(h) : \A k \in 1..NumNeighbors :
            FracEq(a_atten[c][k], SoftmaxRow(HeadScore(h))[k])
      /\ \A c \in HeadChannels(h) :
            SumSeq([k \in 1..NumNeighbors |-> a_atten[c][k].num])
              = a_atten[c][1].den

----------------------------------------------------------------------------
(* Claims about Alignment.forward, checked under SpecAl *)

\* C4: when every vector of fy is the vector of fx rotated by R0 and scaled
\* by s0, the returned scale has every component equal to s0, for every
\* rotation R0, the 90-degree rotations that exchange axes included.
\* (Stated on the squares, for the inputs where no norm of fx is zero.)
C4_ScaleRecovered ==
  (al_pc = "done" /\ \A d \in 1..VecDim : al_S2[d].den > 0) =>
    \A d \in 1..VecDim : al_S2[d].num = al_s0 * al_s0 * al_S2[d].den

----------------------------------------------------------------------------
(* Claims about HEGN_Loss.forward, checked under SpecLoss *)

FracEq0(p) == p.num = 0 /\ p.den > 0
FracNonNeg(p) == p.num >= 0 /\ p.den > 0

\* Predicted equals ground truth (R_gt orthonormal) and the aligned cloud
\* equals the target cloud
PerfectPrediction ==
  /\ l_args.R = l_args.R_gt
  /\ \A b \in DOMAIN l_args.R_gt :
        MatMul(Transpose(l_args.R_gt[b]), l_args.R_gt[b]) = Eye3
  /\ l_args.S = l_args.S_gt
  /\ l_args.t = l_args.t_gt
  /\ l_args.x_aligned = l_args.y

\* C5: the triple returned is (total, registration, chamfer) with
\* registration >= 0, chamfer >= 0 and total = registration + chamfer, and
\* all three are 0 when the prediction is perfect.
C5_LossTriple ==
  l_pc = "done" =>
    /\ FracNonNeg(l_ret[2])
    /\ FracNonNeg(l_ret[3])
    /\ FracEq(l_ret[1], FracAdd(l_ret[2], l_ret[3]))
    /\ PerfectPrediction =>
         FracEq0(l_ret[1]) /\ FracEq0(l_ret[2]) /\ FracEq0(l_ret[3])

\* A batch of two has been scored: one perfect prediction returning zeros
C5_Witness ==
  /\ l_pc = "done"
  /\ Len(l_args.R) = 2
  /\ PerfectPrediction
  /\ l_args.R_gt[1] = Rz90
  /\ l_ret[1].num = 0

=============================================================================
